---- MODULE Spec2Model ----
(***************************************************************************)
(* Model of src/adb_control.py: the ADB command executor, the device gate, *)
(* the gesture primitives, the click sequence, the retry wrapper, the      *)
(* automation sequence and the run loop of the __main__ block.             *)
(*                                                                         *)
(* Text is modelled as a sequence of atoms: "SP", "TAB" and "NL" are the   *)
(* whitespace characters, every other atom is a run of non-blank text.     *)
(* The success rate is a Python float in the source; it is modelled in     *)
(* exact integer arithmetic (100*s >= 90*n), which agrees with the float   *)
(* comparison s/n*100 >= 90 for every 0 <= s <= n < 3000.                  *)
(***************************************************************************)
EXTENDS Integers, Sequences, FiniteSets, TLC

VARIABLES
    pc,             \* position of the single control thread
    repeat_count,   \* args.repeat_count
    i,              \* loop index of the run loop
    success_count,  \* success_count of the run loop
    fail_count,     \* number of "iteration failed" log lines (line 624)
    started,        \* number of iterations the run loop has started
    gate,           \* result of check_device_connected in this iteration
    main_ret,       \* return value of main() in this iteration
    swipe_ret,      \* what swipe_screen returned in this iteration
    iter_cmds,      \* executor commands issued in the current iteration
    n_devices,      \* total "adb devices" commands issued
    n_swipes,       \* total swipe commands issued
    n_taps,         \* total tap commands issued
    interrupted,    \* the run loop's except KeyboardInterrupt ran
    intr_seen,      \* some KeyboardInterrupt has been delivered
    iter_intr,      \* a KeyboardInterrupt was delivered in this iteration
    succ_at_intr,   \* success_count when the first interrupt was delivered
    fail_at_intr,   \* fail_count when the first interrupt was delivered
    config_error,   \* the repeat_count error was logged (line 600)
    summary,        \* the figures logged by the final summary
    exit_code,      \* argument of sys.exit, NoExit while running
    caller,         \* who called perform_click_sequence
    coordinates,    \* argument of perform_click_sequence
    ci,             \* 1-based index of the click loop
    click_success,  \* success_count of perform_click_sequence
    taps,           \* coordinates handed to tap_screen, in order
    tap_results,    \* return values of those tap_screen calls
    click_sleeps,   \* number of time.sleep(interval) in the click loop
    click_ret,      \* return value of perform_click_sequence
    max_retries,    \* argument of wait_and_retry
    attempt,        \* loop variable of wait_and_retry
    calls,          \* invocations of operation_func
    sleeps,         \* time.sleep(retry_interval) calls
    retry_trace,    \* outcomes of the invocations and "sleep", in order
    retry_ret,      \* return value of wait_and_retry
    prim_fn,        \* the primitive that is called on its own
    prim_args,      \* its arguments
    adb_status,     \* how the subprocess of its executor call ends
    adb_stdout,     \* what that subprocess writes to stdout
    prim_ret,       \* return value of the primitive
    exec_calls,     \* number of run_adb_command calls it made
    command         \* the command it handed to run_adb_command

vars == << pc, repeat_count, i, success_count, fail_count, started, gate,
           main_ret, swipe_ret, iter_cmds, n_devices, n_swipes, n_taps, interrupted,
           intr_seen, succ_at_intr, fail_at_intr, config_error, summary,
           exit_code, caller, coordinates, ci, click_success, taps,
           tap_results, click_sleeps, click_ret, max_retries, attempt,
           calls, sleeps, retry_trace, retry_ret, iter_intr, prim_fn,
           prim_args, adb_status, adb_stdout, prim_ret, exec_calls, command >>

loopVars == << repeat_count, i, success_count, fail_count, started, gate,
               main_ret, swipe_ret, iter_cmds, n_devices, n_swipes, interrupted,
               intr_seen, succ_at_intr, fail_at_intr, config_error, summary,
               exit_code, iter_intr >>

clickVars == << caller, coordinates, ci, click_success, taps, tap_results,
                click_sleeps, click_ret >>

retryVars == << max_retries, attempt, calls, sleeps, retry_trace, retry_ret >>

primVars == << prim_fn, prim_args, adb_status, adb_stdout, prim_ret,
               exec_calls, command >>

(***************************************************************************)
(* Bounds of the model.                                                    *)
(***************************************************************************)
MaxRepeat == 5
MaxNegRepeat == 1
MaxRetries == 3
MaxCoords == 3

NoExit == -1
NoSummary == [planned |-> -1, succeeded |-> -1, rate_ge_90 |-> FALSE,
              avg_divisor |-> -1]

(***************************************************************************)
(* Config                                                                  *)
(***************************************************************************)
SWIPE_COORDINATES == [start |-> <<1000, 1400>>, end |-> <<540, 1400>>]
CLICK_COORDINATES == << <<1126, 1466>>, <<770, 2300>>, <<939, 2525>> >>
DEFAULT_SWIPE_DURATION == 300

(***************************************************************************)
(* Command executor.  A CommandResult status is the way subprocess.run     *)
(* ended; run_adb_command returns the captured stdout on success and None  *)
(* on CalledProcessError, TimeoutExpired or any other Exception.           *)
(***************************************************************************)
Statuses == {"Success", "Failed", "TimedOut", "UnknownError"}
None == [none |-> TRUE, out |-> <<>>]
Some(text) == [none |-> FALSE, out |-> text]

\* an executor result tested for truth instead of "is not None"
run_adb_command_Truthy(status, stdout) ==
    IF status = "Success" /\ stdout # <<>> THEN Some(stdout) ELSE None

run_adb_command(status, stdout) ==
    IF status = "Success" THEN Some(stdout) ELSE None

(***************************************************************************)
(* str.strip, str.split and the "in" test on text.                         *)
(***************************************************************************)
IsSpace(c) == c \in {"SP", "TAB", "NL"}

RECURSIVE LStrip(_)
LStrip(s) ==
    IF s = <<>> THEN s
    ELSE IF IsSpace(Head(s)) THEN LStrip(Tail(s)) ELSE s

RECURSIVE RStrip(_)
RStrip(s) ==
    IF s = <<>> THEN s
    ELSE IF IsSpace(s[Len(s)]) THEN RStrip(SubSeq(s, 1, Len(s) - 1)) ELSE s

Strip(s) == RStrip(LStrip(s))

Contains(s, c) == \E k \in 1..Len(s) : s[k] = c

IndexOf(s, c) == CHOOSE k \in 1..Len(s) : s[k] = c /\ \A j \in 1..(k-1) : s[j] # c

RECURSIVE Split(_, _)
Split(s, sep) ==
    IF ~Contains(s, sep) THEN << s >>
    ELSE << SubSeq(s, 1, IndexOf(s, sep) - 1) >>
         \o Split(SubSeq(s, IndexOf(s, sep) + 1, Len(s)), sep)

\* line.split('\t', 1) of a line that contains a tab
SplitOnce(s, sep) ==
    << SubSeq(s, 1, IndexOf(s, sep) - 1), SubSeq(s, IndexOf(s, sep) + 1, Len(s)) >>

(***************************************************************************)
(* Device gate.                                                            *)
(***************************************************************************)
RECURSIVE ParseDevices(_)
ParseDevices(lines) ==
    IF lines = <<>> THEN <<>>
    ELSE LET line == Head(lines) IN
         IF Strip(line) # <<>> /\ Contains(line, "TAB")
         THEN << << Strip(SplitOnce(line, "TAB")[1]), Strip(SplitOnce(line, "TAB")[2]) >> >>
              \o ParseDevices(Tail(lines))
         ELSE ParseDevices(Tail(lines))

\* a gate that admits a device in any state
check_device_connected_AnyState(result) ==
    IF result.none \/ result.out = <<>> THEN FALSE
    ELSE LET lines == Split(Strip(result.out), "NL") IN
         IF Len(lines) <= 1 THEN FALSE
         ELSE ParseDevices(Tail(lines)) # <<>>

check_device_connected(result) ==
    IF result.none \/ result.out = <<>> THEN FALSE
    ELSE LET lines == Split(Strip(result.out), "NL") IN
         IF Len(lines) <= 1 THEN FALSE
         ELSE LET devices == ParseDevices(Tail(lines)) IN
              \E k \in 1..Len(devices) : devices[k][2] = << "device" >>

\* stdout of "adb devices" the gate is exercised with
Listings ==
    { << "List", "NL", "id1", "TAB", "device", "NL", "NL" >>,
      << "List", "NL", "NL" >>,
      << "List", "NL", "id1", "TAB", "unauthorized", "NL" >>,
      << "List", "NL", "id1", "TAB", "offline", "NL", "id2", "TAB", "device", "NL" >>,
      << >> }

(***************************************************************************)
(* Gesture primitives.  Each returns whether the executor was called and   *)
(* the boolean the primitive returns.                                      *)
(***************************************************************************)
swipe_screen(start_x, start_y, end_x, end_y, duration, status, stdout) ==
    IF ~(start_x >= 0 /\ start_y >= 0 /\ end_x >= 0 /\ end_y >= 0)
    THEN [called |-> FALSE, ret |-> FALSE]
    ELSE IF duration <= 0
    THEN [called |-> FALSE, ret |-> FALSE]
    ELSE [called |-> TRUE, ret |-> ~run_adb_command(status, stdout).none]

\* a tap that validates x only
tap_screen_NoYCheck(x, y, status, stdout) ==
    IF x < 0
    THEN [called |-> FALSE, ret |-> FALSE]
    ELSE [called |-> TRUE, ret |-> ~run_adb_command(status, stdout).none]

tap_screen(x, y, status, stdout) ==
    IF x < 0 \/ y < 0
    THEN [called |-> FALSE, ret |-> FALSE]
    ELSE [called |-> TRUE, ret |-> ~run_adb_command(status, stdout).none]

Cmd(name, at) == [cmd |-> name, at |-> at]

(***************************************************************************)
(* Initial values of the three groups of variables.                        *)
(***************************************************************************)
LoopIdle ==
    /\ i = 0 /\ success_count = 0 /\ fail_count = 0 /\ started = 0
    /\ gate = FALSE /\ main_ret = FALSE /\ swipe_ret = "none"
    /\ iter_cmds = <<>>
    /\ n_devices = 0 /\ n_swipes = 0 /\ n_taps = 0
    /\ interrupted = FALSE /\ intr_seen = FALSE /\ iter_intr = FALSE
    /\ succ_at_intr = 0 /\ fail_at_intr = 0
    /\ config_error = FALSE /\ summary = NoSummary /\ exit_code = NoExit

ClickIdle ==
    /\ caller = "none" /\ ci = 0 /\ click_success = 0
    /\ taps = <<>> /\ tap_results = <<>> /\ click_sleeps = 0
    /\ click_ret = FALSE

RetryIdle ==
    /\ attempt = 0 /\ calls = 0 /\ sleeps = 0
    /\ retry_trace = <<>> /\ retry_ret = FALSE

PrimIdle ==
    /\ prim_ret = FALSE /\ exec_calls = 0 /\ command = Cmd("none", <<>>)

NoPrim ==
    /\ prim_fn = "none" /\ prim_args = <<>>
    /\ adb_status = "Success" /\ adb_stdout = <<>>

(***************************************************************************)
(* perform_click_sequence                                                  *)
(***************************************************************************)
\* where perform_click_sequence returns to
ClickReturnPc(who) == IF who = "seq" THEN "seq_after_click" ELSE "click_done"

\* lines 398-404: the empty-list early return and the loop set-up
ClickEnter ==
    /\ pc = "click_enter"
    /\ IF coordinates = <<>>
       THEN /\ click_ret' = TRUE
            /\ pc' = ClickReturnPc(caller)
            /\ UNCHANGED << ci, click_success, taps, tap_results, click_sleeps >>
       ELSE /\ click_success' = 0
            /\ ci' = 1
            /\ taps' = <<>>
            /\ tap_results' = <<>>
            /\ click_sleeps' = 0
            /\ pc' = "click_tap"
            /\ UNCHANGED click_ret
    /\ UNCHANGED << caller, coordinates, n_taps >>
    /\ UNCHANGED loopVars
    /\ UNCHANGED retryVars
    /\ UNCHANGED primVars

\* a click loop that stops at the first failed tap
AfterTap_ShortCircuit(ok, k, n) ==
    IF ok /\ k < n THEN "click_sleep" ELSE "click_return"

\* lines 405-413: where the loop goes after tap number k of n returned ok
AfterTap(ok, k, n) ==
    IF ok /\ k < n THEN "click_sleep"
    ELSE IF k < n THEN "click_tap"
    ELSE "click_return"

\* lines 405-413: one pass of the for loop up to the sleep
ClickTap ==
    /\ pc = "click_tap"
    /\ \E status \in Statuses :
         LET xy == coordinates[ci]
             r == tap_screen(xy[1], xy[2], status, <<>>)
             nxt == AfterTap(r.ret, ci, Len(coordinates))
         IN /\ taps' = Append(taps, xy)
            /\ tap_results' = Append(tap_results, r.ret)
            /\ n_taps' = IF r.called THEN n_taps + 1 ELSE n_taps
            /\ iter_cmds' = IF r.called THEN Append(iter_cmds, Cmd("tap", xy))
                            ELSE iter_cmds
            /\ click_success' = IF r.ret THEN click_success + 1 ELSE click_success
            /\ ci' = IF nxt = "click_tap" THEN ci + 1 ELSE ci
            /\ pc' = nxt
    /\ UNCHANGED << caller, coordinates, click_sleeps, click_ret >>
    /\ UNCHANGED << iter_intr, swipe_ret, repeat_count, i, success_count, fail_count, started, gate,
                    main_ret, n_devices, n_swipes, interrupted, intr_seen,
                    succ_at_intr, fail_at_intr, config_error, summary,
                    exit_code >>
    /\ UNCHANGED retryVars
    /\ UNCHANGED primVars

\* lines 410-411: the sleep after a successful tap that is not the last
ClickSleep ==
    /\ pc = "click_sleep"
    /\ click_sleeps' = click_sleeps + 1
    /\ ci' = ci + 1
    /\ pc' = "click_tap"
    /\ UNCHANGED << caller, coordinates, click_success, taps, tap_results,
                    click_ret, n_taps >>
    /\ UNCHANGED loopVars
    /\ UNCHANGED retryVars
    /\ UNCHANGED primVars

\* line 418: the value perform_click_sequence returns
ClickResult(cnt, n) == cnt = n

\* lines 415-418
ClickReturn ==
    /\ pc = "click_return"
    /\ click_ret' = ClickResult(click_success, Len(coordinates))
    /\ pc' = ClickReturnPc(caller)
    /\ UNCHANGED << caller, coordinates, ci, click_success, taps, tap_results,
                    click_sleeps, n_taps >>
    /\ UNCHANGED loopVars
    /\ UNCHANGED retryVars
    /\ UNCHANGED primVars

(***************************************************************************)
(* execute_automation_sequence and main, as called by the run loop.        *)
(***************************************************************************)
\* a main that ignores the gate
MainProceeds_Always(g) == TRUE

\* line 540: main goes on to the automation sequence only past the gate
MainProceeds(g) == g

\* lines 154-199 and 540-542: the device query of main
MainGate ==
    /\ pc = "gate"
    /\ \E status \in Statuses, out \in Listings :
         LET g == check_device_connected(run_adb_command(status, out))
         IN /\ gate' = g
            /\ IF MainProceeds(g)
               THEN pc' = "ready_wait" /\ UNCHANGED main_ret
               ELSE pc' = "record" /\ main_ret' = FALSE
    /\ n_devices' = n_devices + 1
    /\ iter_cmds' = Append(iter_cmds, Cmd("devices", <<>>))
    /\ UNCHANGED << iter_intr, swipe_ret, repeat_count, i, success_count, fail_count, started,
                    n_swipes, n_taps, interrupted, intr_seen, succ_at_intr,
                    fail_at_intr, config_error, summary, exit_code >>
    /\ UNCHANGED clickVars
    /\ UNCHANGED retryVars
    /\ UNCHANGED primVars

\* lines 496-497: time.sleep(Config.DEVICE_READY_WAIT)
SeqReadyWait ==
    /\ pc = "ready_wait"
    /\ pc' = "swipe"
    /\ UNCHANGED << loopVars, n_taps, clickVars, retryVars, primVars >>

\* a sequence that goes on after a failed swipe
AfterSwipe_GoesOn(ok) == "anim_wait"

\* lines 504-506: a failed swipe ends the sequence
AfterSwipe(ok) == IF ok THEN "anim_wait" ELSE "record"

\* lines 499-506
SeqSwipe ==
    /\ pc = "swipe"
    /\ \E status \in Statuses :
         LET r == swipe_screen(SWIPE_COORDINATES.start[1], SWIPE_COORDINATES.start[2],
                               SWIPE_COORDINATES.end[1], SWIPE_COORDINATES.end[2],
                               DEFAULT_SWIPE_DURATION, status, <<>>)
         IN /\ n_swipes' = IF r.called THEN n_swipes + 1 ELSE n_swipes
            /\ iter_cmds' = IF r.called THEN Append(iter_cmds, Cmd("swipe", <<>>))
                            ELSE iter_cmds
            /\ swipe_ret' = IF r.ret THEN "true" ELSE "false"
            /\ pc' = AfterSwipe(r.ret)
            /\ main_ret' = IF AfterSwipe(r.ret) = "record" THEN FALSE ELSE main_ret
    /\ UNCHANGED << iter_intr, repeat_count, i, success_count, fail_count, started, gate,
                    n_devices, n_taps, interrupted, intr_seen, succ_at_intr,
                    fail_at_intr, config_error, summary, exit_code >>
    /\ UNCHANGED clickVars
    /\ UNCHANGED retryVars
    /\ UNCHANGED primVars

\* lines 508-514: time.sleep(Config.ANIMATION_WAIT), then the call of
\* perform_click_sequence(Config.CLICK_COORDINATES)
SeqAnimWait ==
    /\ pc = "anim_wait"
    /\ caller' = "seq"
    /\ coordinates' = CLICK_COORDINATES
    /\ pc' = "click_enter"
    /\ UNCHANGED << ci, click_success, taps, tap_results, click_sleeps, click_ret >>
    /\ UNCHANGED << loopVars, n_taps, retryVars, primVars >>

\* lines 514-519 and 545: the sequence, and main, return the click result
SeqAfterClick ==
    /\ pc = "seq_after_click"
    /\ main_ret' = click_ret
    /\ pc' = "record"
    /\ UNCHANGED << iter_intr, swipe_ret, repeat_count, i, success_count, fail_count, started, gate,
                    iter_cmds, n_devices, n_swipes, n_taps, interrupted,
                    intr_seen, succ_at_intr, fail_at_intr, config_error,
                    summary, exit_code >>
    /\ UNCHANGED clickVars
    /\ UNCHANGED retryVars
    /\ UNCHANGED primVars

\* the positions inside the try block of execute_automation_sequence
SeqPcs == {"ready_wait", "swipe", "anim_wait", "click_enter", "click_tap",
           "click_sleep", "click_return", "seq_after_click"}

\* the positions inside the try block of the run loop, outside the sequence
LoopPcs == {"loop_head", "gate", "record", "interval"}

\* the first interrupt records the counts it found
NoteInterrupt ==
    /\ intr_seen' = TRUE
    /\ succ_at_intr' = IF intr_seen THEN succ_at_intr ELSE success_count
    /\ fail_at_intr' = IF intr_seen THEN fail_at_intr ELSE fail_count

\* lines 521-523: a KeyboardInterrupt raised inside the sequence is caught
\* there and the sequence returns False.  The command of the step that was
\* running may or may not have reached the device.
InterruptSeq ==
    /\ pc \in SeqPcs
    /\ NoteInterrupt
    /\ iter_intr' = TRUE
    /\ main_ret' = FALSE
    /\ pc' = "record"
    /\ \E issued \in BOOLEAN :
         /\ n_swipes' = IF pc = "swipe" /\ issued THEN n_swipes + 1 ELSE n_swipes
         /\ n_taps' = IF pc = "click_tap" /\ issued THEN n_taps + 1 ELSE n_taps
         /\ iter_cmds' = IF pc = "swipe" /\ issued
                         THEN Append(iter_cmds, Cmd("swipe", <<>>))
                         ELSE IF pc = "click_tap" /\ issued
                         THEN Append(iter_cmds, Cmd("tap", coordinates[ci]))
                         ELSE iter_cmds
    /\ UNCHANGED << swipe_ret, repeat_count, i, success_count, fail_count, started, gate,
                    n_devices, interrupted, config_error, summary, exit_code >>
    /\ UNCHANGED clickVars
    /\ UNCHANGED retryVars
    /\ UNCHANGED primVars

(***************************************************************************)
(* The __main__ block.                                                     *)
(***************************************************************************)
\* a validation that lets zero through
ValidRepeatCount_ZeroOk(n) == ~(n < 0)

\* line 599
ValidRepeatCount(n) == ~(n <= 0)

\* lines 598-614
Validate ==
    /\ pc = "validate"
    /\ IF ValidRepeatCount(repeat_count)
       THEN /\ success_count' = 0
            /\ pc' = "loop_head"
            /\ UNCHANGED << config_error, exit_code >>
       ELSE /\ config_error' = TRUE
            /\ exit_code' = 1
            /\ pc' = "exited"
            /\ UNCHANGED success_count
    /\ UNCHANGED << iter_intr, swipe_ret, repeat_count, i, fail_count, started, gate, main_ret,
                    iter_cmds, n_devices, n_swipes, n_taps, interrupted,
                    intr_seen, succ_at_intr, fail_at_intr, summary >>
    /\ UNCHANGED clickVars
    /\ UNCHANGED retryVars
    /\ UNCHANGED primVars

\* lines 617-618: the for statement takes the next index of range(repeat_count)
LoopHead ==
    /\ pc = "loop_head"
    /\ IF started < repeat_count
       THEN /\ i' = started
            /\ started' = started + 1
            /\ iter_cmds' = <<>>
            /\ swipe_ret' = "none"
            /\ iter_intr' = FALSE
            /\ pc' = "gate"
       ELSE /\ pc' = "summary"
            /\ UNCHANGED << i, started, iter_cmds, swipe_ret, iter_intr >>
    /\ UNCHANGED << repeat_count, success_count, fail_count, gate, main_ret,
                    n_devices, n_swipes, n_taps, interrupted, intr_seen,
                    succ_at_intr, fail_at_intr, config_error, summary,
                    exit_code >>
    /\ UNCHANGED clickVars
    /\ UNCHANGED retryVars
    /\ UNCHANGED primVars

\* a loop that counts every iteration as a success
LoopRecord_CountsAll ==
    /\ pc = "record"
    /\ success_count' = success_count + 1
    /\ pc' = IF i < repeat_count - 1 THEN "interval" ELSE "loop_head"
    /\ UNCHANGED << fail_count, iter_intr, swipe_ret, repeat_count, i, started,
                    gate, main_ret, iter_cmds, n_devices, n_swipes, n_taps,
                    interrupted, intr_seen, succ_at_intr, fail_at_intr,
                    config_error, summary, exit_code >>
    /\ UNCHANGED clickVars
    /\ UNCHANGED retryVars
    /\ UNCHANGED primVars

\* lines 620-631: count the iteration, log the progress
LoopRecord ==
    /\ pc = "record"
    /\ IF main_ret
       THEN success_count' = success_count + 1 /\ UNCHANGED fail_count
       ELSE fail_count' = fail_count + 1 /\ UNCHANGED success_count
    /\ pc' = IF i < repeat_count - 1 THEN "interval" ELSE "loop_head"
    /\ UNCHANGED << iter_intr, swipe_ret, repeat_count, i, started, gate, main_ret, iter_cmds,
                    n_devices, n_swipes, n_taps, interrupted, intr_seen,
                    succ_at_intr, fail_at_intr, config_error, summary,
                    exit_code >>
    /\ UNCHANGED clickVars
    /\ UNCHANGED retryVars
    /\ UNCHANGED primVars

\* an interval sleep after which a failed iteration is run again
LoopInterval_RepeatFailed ==
    /\ pc = "interval"
    /\ pc' = "loop_head"
    /\ started' = IF main_ret THEN started ELSE started - 1
    /\ UNCHANGED << repeat_count, i, success_count, fail_count, gate, main_ret,
                    swipe_ret, iter_cmds, n_devices, n_swipes, n_taps,
                    interrupted, intr_seen, succ_at_intr, fail_at_intr,
                    config_error, summary, exit_code, iter_intr >>
    /\ UNCHANGED << clickVars, retryVars, primVars >>

\* line 632: time.sleep(args.interval)
LoopInterval ==
    /\ pc = "interval"
    /\ pc' = "loop_head"
    /\ UNCHANGED << loopVars, n_taps, clickVars, retryVars, primVars >>

\* lines 634-635: a KeyboardInterrupt raised in the loop outside the sequence
\* ends the loop.  An interrupted device query may or may not have run.
InterruptLoop ==
    /\ pc \in LoopPcs
    /\ NoteInterrupt
    /\ iter_intr' = TRUE
    /\ interrupted' = TRUE
    /\ pc' = "summary"
    /\ \E issued \in BOOLEAN :
         /\ n_devices' = IF pc = "gate" /\ issued THEN n_devices + 1 ELSE n_devices
         /\ iter_cmds' = IF pc = "gate" /\ issued
                         THEN Append(iter_cmds, Cmd("devices", <<>>))
                         ELSE iter_cmds
    /\ UNCHANGED << swipe_ret, repeat_count, i, success_count, fail_count, started, gate,
                    main_ret, n_swipes, n_taps, config_error, summary,
                    exit_code >>
    /\ UNCHANGED clickVars
    /\ UNCHANGED retryVars
    /\ UNCHANGED primVars

\* a threshold of 80 percent
RateAtLeast80(s, n) == IF n > 0 THEN 100 * s >= 80 * n ELSE FALSE

\* line 643 and 655: success_rate >= 90 with success_rate = s / n * 100
RateAtLeast90(s, n) == IF n > 0 THEN 100 * s >= 90 * n ELSE FALSE

\* line 655
ExitCode(s, n) == IF RateAtLeast90(s, n) THEN 0 ELSE 1

\* a summary whose rate is taken over the iterations started
Summary_OverStarted ==
    /\ pc = "summary"
    /\ summary' = [planned |-> repeat_count,
                   succeeded |-> success_count,
                   rate_ge_90 |-> RateAtLeast90(success_count, started),
                   avg_divisor |-> started]
    /\ exit_code' = ExitCode(success_count, started)
    /\ pc' = "exited"
    /\ UNCHANGED << iter_intr, swipe_ret, repeat_count, i, success_count,
                    fail_count, started, gate, main_ret, iter_cmds, n_devices,
                    n_swipes, n_taps, interrupted, intr_seen, succ_at_intr,
                    fail_at_intr, config_error >>
    /\ UNCHANGED clickVars
    /\ UNCHANGED retryVars
    /\ UNCHANGED primVars

\* lines 640-656: the summary and sys.exit
Summary ==
    /\ pc = "summary"
    /\ summary' = [planned |-> repeat_count,
                   succeeded |-> success_count,
                   rate_ge_90 |-> RateAtLeast90(success_count, repeat_count),
                   avg_divisor |-> repeat_count]
    /\ exit_code' = ExitCode(success_count, repeat_count)
    /\ pc' = "exited"
    /\ UNCHANGED << iter_intr, swipe_ret, repeat_count, i, success_count, fail_count, started, gate,
                    main_ret, iter_cmds, n_devices, n_swipes, n_taps,
                    interrupted, intr_seen, succ_at_intr, fail_at_intr,
                    config_error >>
    /\ UNCHANGED clickVars
    /\ UNCHANGED retryVars
    /\ UNCHANGED primVars

Init ==
    /\ pc = "validate"
    /\ repeat_count \in (0 - MaxNegRepeat)..MaxRepeat
    /\ LoopIdle
    /\ ClickIdle
    /\ coordinates = <<>>
    /\ RetryIdle
    /\ max_retries = 0
    /\ PrimIdle
    /\ NoPrim

Next ==
    \/ Validate
    \/ LoopHead
    \/ MainGate
    \/ SeqReadyWait
    \/ SeqSwipe
    \/ SeqAnimWait
    \/ ClickEnter
    \/ ClickTap
    \/ ClickSleep
    \/ ClickReturn
    \/ SeqAfterClick
    \/ InterruptSeq
    \/ LoopRecord
    \/ LoopInterval
    \/ InterruptLoop
    \/ Summary

Spec == Init /\ [][Next]_vars

(***************************************************************************)
(* The run loop when every executor call and every sleep returns: each     *)
(* step of the program is eventually taken; interrupts may or may not come.*)
(***************************************************************************)
MaxRepeatLive == 2

InitLive == Init /\ repeat_count <= MaxRepeatLive

ProgramStep ==
    \/ Validate
    \/ LoopHead
    \/ MainGate
    \/ SeqReadyWait
    \/ SeqSwipe
    \/ SeqAnimWait
    \/ ClickEnter
    \/ ClickTap
    \/ ClickSleep
    \/ ClickReturn
    \/ SeqAfterClick
    \/ LoopRecord
    \/ LoopInterval
    \/ Summary

SpecLive == InitLive /\ [][Next]_vars /\ WF_vars(ProgramStep)

(***************************************************************************)
(* perform_click_sequence called on its own with any coordinate list.      *)
(***************************************************************************)
CoordPool == { <<0 - 1, 5>>, <<10, 20>>, <<30, 40>> }

RECURSIVE SeqsUpTo(_, _)
SeqsUpTo(S, n) ==
    IF n = 0 THEN { <<>> }
    ELSE SeqsUpTo(S, n - 1)
         \cup { Append(q, x) : q \in { t \in SeqsUpTo(S, n - 1) : Len(t) = n - 1 }, x \in S }

InitClick ==
    /\ pc = "click_enter"
    /\ coordinates \in SeqsUpTo(CoordPool, MaxCoords)
    /\ ClickIdle
    /\ LoopIdle
    /\ repeat_count = 0
    /\ RetryIdle
    /\ max_retries = 0
    /\ PrimIdle
    /\ NoPrim

NextClick ==
    \/ ClickEnter
    \/ ClickTap
    \/ ClickSleep
    \/ ClickReturn

SpecClick == InitClick /\ [][NextClick]_vars

(***************************************************************************)
(* wait_and_retry.  An invocation of operation_func returns a truthy       *)
(* value, returns a falsy value, raises an Exception, or raises a          *)
(* BaseException that is not an Exception (KeyboardInterrupt, SystemExit). *)
(***************************************************************************)
Outcomes == {"true", "false", "raise", "base"}

\* a loop over range(max_retries)
RetryRange_OneShort(m) == m

\* line 438: range(max_retries + 1)
RetryRange(m) == m + 1

\* a loop without the except clause
Propagates_Any(o) == o \in {"raise", "base"}

\* line 445: except Exception does not catch what is only a BaseException
Propagates(o) == o = "base"

\* a sleep after every failed attempt, the last one included
SleepBetween_Always(a, m) == a <= m

\* line 448
SleepBetween(a, m) == a < m

\* lines 438-450: one pass of the for loop up to the sleep
RetryAttempt ==
    /\ pc = "r_loop"
    /\ attempt < RetryRange(max_retries)
    /\ \E o \in Outcomes :
         /\ calls' = calls + 1
         /\ retry_trace' = Append(retry_trace, o)
         /\ IF o = "true"
            THEN /\ retry_ret' = TRUE
                 /\ pc' = "r_done"
                 /\ UNCHANGED attempt
            ELSE IF Propagates(o)
            THEN /\ pc' = "r_raised"
                 /\ UNCHANGED << attempt, retry_ret >>
            ELSE IF SleepBetween(attempt, max_retries)
            THEN /\ pc' = "r_sleep"
                 /\ UNCHANGED << attempt, retry_ret >>
            ELSE /\ attempt' = attempt + 1
                 /\ pc' = "r_loop"
                 /\ UNCHANGED retry_ret
    /\ UNCHANGED << max_retries, sleeps >>
    /\ UNCHANGED << loopVars, n_taps, clickVars, primVars >>

\* lines 449-450: time.sleep(retry_interval), then the next attempt
RetrySleep ==
    /\ pc = "r_sleep"
    /\ sleeps' = sleeps + 1
    /\ retry_trace' = Append(retry_trace, "sleep")
    /\ attempt' = attempt + 1
    /\ pc' = "r_loop"
    /\ UNCHANGED << max_retries, calls, retry_ret >>
    /\ UNCHANGED << loopVars, n_taps, clickVars, primVars >>

\* lines 452-453: the range is exhausted
RetryExhausted ==
    /\ pc = "r_loop"
    /\ ~(attempt < RetryRange(max_retries))
    /\ retry_ret' = FALSE
    /\ pc' = "r_done"
    /\ UNCHANGED << max_retries, attempt, calls, sleeps, retry_trace >>
    /\ UNCHANGED << loopVars, n_taps, clickVars, primVars >>

InitRetry ==
    /\ pc = "r_loop"
    /\ max_retries \in (0 - 1)..MaxRetries
    /\ RetryIdle
    /\ LoopIdle
    /\ repeat_count = 0
    /\ ClickIdle
    /\ coordinates = <<>>
    /\ PrimIdle
    /\ NoPrim

NextRetry ==
    \/ RetryAttempt
    \/ RetrySleep
    \/ RetryExhausted

SpecRetry == InitRetry /\ [][NextRetry]_vars

(***************************************************************************)
(* The primitives and the device gate called on their own.  In the text of *)
(* input_text every atom is one character: "SP" a space, "TAB" a tab, "SQ" *)
(* a single quote, "DQ" a double quote, "AMP" an ampersand, "LP" and "RP"  *)
(* the parentheses, "PCT" a percent sign, "BS" a backslash.                *)
(***************************************************************************)
MaxText == 3
MaxLines == 2

RECURSIVE Replace(_, _, _)
\* str.replace(old, new) for a one-character old
Replace(text, old, new) ==
    IF text = <<>> THEN <<>>
    ELSE (IF Head(text) = old THEN new ELSE << Head(text) >>)
         \o Replace(Tail(text), old, new)

\* lines 311-318; the Python literal "\'" of line 313 is a lone single quote
EscapeText(text) ==
    Replace(Replace(Replace(Replace(Replace(Replace(text,
        "SP", << "PCT", "s" >>),
        "SQ", << "SQ" >>),
        "DQ", << "BS", "DQ" >>),
        "AMP", << "BS", "AMP" >>),
        "LP", << "BS", "LP" >>),
        "RP", << "BS", "RP" >>)

\* an input_text without the early return for blank text
input_text_NoBlankCheck(text, status, stdout) ==
    [called |-> TRUE, ret |-> ~run_adb_command(status, stdout).none,
     escaped |-> EscapeText(text)]

\* lines 302-324, for a str argument
input_text(text, status, stdout) ==
    IF Strip(text) = <<>>
    THEN [called |-> FALSE, ret |-> TRUE, escaped |-> <<>>]
    ELSE [called |-> TRUE, ret |-> ~run_adb_command(status, stdout).none,
          escaped |-> EscapeText(text)]

\* a press_key that validates nothing
press_key_NoCheck(keycode, status, stdout) ==
    [called |-> TRUE, ret |-> ~run_adb_command(status, stdout).none]

\* lines 355-371
press_key(keycode, status, stdout) ==
    IF keycode < 0
    THEN [called |-> FALSE, ret |-> FALSE]
    ELSE [called |-> TRUE, ret |-> ~run_adb_command(status, stdout).none]

\* lines 228-229: duration defaults to Config.DEFAULT_SWIPE_DURATION
SwipeDuration(given, d) == IF given THEN d ELSE DEFAULT_SWIPE_DURATION

NoCmd == Cmd("none", <<>>)

\* the arguments the primitives are exercised with
CoordValues == {0 - 1, 0, 7}
DurationValues == {0 - 5, 0, 300}
KeyValues == {0 - 1, 0, 4}
TextAlphabet == {"SP", "TAB", "SQ", "DQ", "AMP", "LP", "RP", "PCT", "s", "BS", "a"}
GestureStdouts == { <<>>, << "ok" >> }

\* the lines "adb devices" is exercised with after its first line
LinePool ==
    { << "id1", "TAB", "device" >>,
      << "id2", "TAB", "unauthorized" >>,
      << "id3", "TAB", "offline" >>,
      << >>,
      << "noise" >>,
      << "id4", "TAB", "SP", "device", "SP" >>,
      << "id5", "TAB", "device", "TAB", "x" >> }

HeaderPool == { << "List" >>, << "id1", "TAB", "device" >> }

RECURSIVE JoinLines(_)
JoinLines(lines) ==
    IF lines = <<>> THEN <<>>
    ELSE Head(lines) \o << "NL" >> \o JoinLines(Tail(lines))

DeviceStdouts ==
    { <<>>, << "NL" >> }
    \cup { lead \o JoinLines(<< h >> \o ls) :
             lead \in { <<>>, << "NL" >> }, h \in HeaderPool,
             ls \in SeqsUpTo(LinePool, MaxLines) }

InitPrim ==
    /\ pc = "p_call"
    /\ adb_status \in Statuses
    /\ \/ /\ prim_fn = "devices"
          /\ prim_args = <<>>
          /\ adb_stdout \in DeviceStdouts
       \/ /\ prim_fn = "tap"
          /\ prim_args \in CoordValues \X CoordValues
          /\ adb_stdout \in GestureStdouts
       \/ /\ prim_fn = "swipe"
          /\ prim_args \in [c : CoordValues \X CoordValues \X CoordValues \X CoordValues,
                            dur_given : BOOLEAN, dur : DurationValues]
          /\ adb_stdout \in GestureStdouts
       \/ /\ prim_fn = "text"
          /\ prim_args \in SeqsUpTo(TextAlphabet, MaxText)
          /\ adb_stdout \in GestureStdouts
       \/ /\ prim_fn = "key"
          /\ prim_args \in KeyValues
          /\ adb_stdout \in GestureStdouts
    /\ PrimIdle
    /\ LoopIdle
    /\ repeat_count = 0
    /\ ClickIdle
    /\ coordinates = <<>>
    /\ RetryIdle
    /\ max_retries = 0

\* what a call of a primitive leaves behind
PrimDone(r, cmd) ==
    /\ prim_ret' = r.ret
    /\ exec_calls' = IF r.called THEN exec_calls + 1 ELSE exec_calls
    /\ command' = IF r.called THEN cmd ELSE command
    /\ pc' = "p_done"
    /\ UNCHANGED << prim_fn, prim_args, adb_status, adb_stdout >>
    /\ UNCHANGED << loopVars, n_taps, clickVars, retryVars >>

\* lines 154-199
CallDevices ==
    /\ pc = "p_call" /\ prim_fn = "devices"
    /\ PrimDone([called |-> TRUE,
                 ret |-> check_device_connected(run_adb_command(adb_status, adb_stdout))],
                Cmd("devices", <<>>))

\* lines 267-276
CallTap ==
    /\ pc = "p_call" /\ prim_fn = "tap"
    /\ PrimDone(tap_screen(prim_args[1], prim_args[2], adb_status, adb_stdout),
                Cmd("tap", prim_args))

\* lines 228-245
CallSwipe ==
    /\ pc = "p_call" /\ prim_fn = "swipe"
    /\ LET d == SwipeDuration(prim_args.dur_given, prim_args.dur)
       IN PrimDone(swipe_screen(prim_args.c[1], prim_args.c[2], prim_args.c[3],
                                prim_args.c[4], d, adb_status, adb_stdout),
                   Cmd("swipe", prim_args.c \o << d >>))

\* lines 302-324
CallText ==
    /\ pc = "p_call" /\ prim_fn = "text"
    /\ LET r == input_text(prim_args, adb_status, adb_stdout)
       IN PrimDone(r, Cmd("text", r.escaped))

\* lines 355-371
CallKey ==
    /\ pc = "p_call" /\ prim_fn = "key"
    /\ PrimDone(press_key(prim_args, adb_status, adb_stdout),
                Cmd("key", << prim_args >>))

NextPrim ==
    \/ CallDevices
    \/ CallTap
    \/ CallSwipe
    \/ CallText
    \/ CallKey

SpecPrim == InitPrim /\ [][NextPrim]_vars

(***************************************************************************)
(* Properties.                                                             *)
(***************************************************************************)
IsPrefix(p, q) == Len(p) <= Len(q) /\ SubSeq(q, 1, Len(p)) = p

CountOf(q, x) == Cardinality({ k \in 1..Len(q) : q[k] = x })

\* the invocation outcomes of retry_trace, without the sleeps
RECURSIVE CallsOf(_)
CallsOf(q) ==
    IF q = <<>> THEN <<>>
    ELSE IF Head(q) = "sleep" THEN CallsOf(Tail(q))
    ELSE << Head(q) >> \o CallsOf(Tail(q))

\* C1: once a KeyboardInterrupt has been delivered inside the run loop, no
\* further step of the loop runs: control is at the summary or the exit, and
\* the success and failure counts are those found when it was delivered.
C1_InterruptHaltsLoop ==
    intr_seen => /\ pc \in {"summary", "exited"}
                 /\ success_count = succ_at_intr
                 /\ fail_count = fail_at_intr

\* C2: with max_retries >= 0, wait_and_retry never invokes the operation
\* after a truthy result; it returns true at the first truthy result, which
\* is invocation k <= max_retries + 1 of exactly k, and it returns false
\* after exactly max_retries + 1 invocations when none was truthy.
C2_RetryInvocations ==
    LET outs == CallsOf(retry_trace) IN
    max_retries >= 0 =>
      /\ calls = Len(outs)
      /\ calls <= max_retries + 1
      /\ \A k \in 1..Len(outs) : outs[k] = "true" => k = Len(outs)
      /\ (outs # <<>> /\ outs[Len(outs)] = "true") => (pc = "r_done" /\ retry_ret)
      /\ (pc = "r_done" /\ retry_ret) => (outs # <<>> /\ outs[calls] = "true")
      /\ (pc = "r_done" /\ ~retry_ret) =>
             (calls = max_retries + 1 /\ \A k \in 1..calls : outs[k] # "true")

C2_Witness ==
    /\ pc = "r_done" /\ retry_ret /\ max_retries = 3
    /\ CallsOf(retry_trace) = << "false", "false", "true" >>

\* C3: when the run loop has run all repeat_count iterations and no
\* interrupt ended it, the exit status is 0 if 10 * success_count >=
\* 9 * repeat_count and 1 otherwise.
C3_ExitStatus ==
    (pc = "exited" /\ ~config_error /\ ~interrupted) =>
      /\ started = repeat_count
      /\ success_count + fail_count = repeat_count
      /\ exit_code = (IF 10 * success_count >= 9 * repeat_count THEN 0 ELSE 1)

C3_Witness ==
    /\ pc = "exited" /\ ~intr_seen
    /\ repeat_count = 5 /\ success_count = 4 /\ exit_code = 1

\* the parts of C4: what holds of a state, what holds of a step
C4_GateState ==
    /\ pc \in SeqPcs \cup {"record", "interval"} =>
         /\ n_devices = started
         /\ iter_cmds # <<>> /\ iter_cmds[1] = Cmd("devices", <<>>)
         /\ CountOf(iter_cmds, Cmd("devices", <<>>)) = 1
    /\ pc \in SeqPcs => gate
    /\ (pc \in {"record", "interval"} /\ ~gate) =>
         /\ iter_cmds = << Cmd("devices", <<>>) >>
         /\ ~main_ret

C4_GateStep ==
    /\ (pc = "record" /\ ~gate /\ ~interrupted') =>
         /\ success_count' = success_count
         /\ fail_count' = fail_count + 1
         /\ pc' = IF started < repeat_count THEN "interval" ELSE "loop_head"
    /\ (pc = "interval" /\ ~interrupted') => pc' = "loop_head"
    /\ (pc = "loop_head" /\ started < repeat_count /\ ~interrupted') =>
         (pc' = "gate" /\ started' = started + 1)
    /\ pc = "gate" => n_devices' \in {n_devices, n_devices + 1}
    /\ (pc = "gate" /\ ~interrupted') => n_devices' = n_devices + 1

\* C4: every iteration that gets past the gate has issued its own device
\* query; in an iteration whose gate returned false no swipe or tap is
\* issued, main returns false, the iteration is counted as failed with
\* success_count unchanged, and the loop goes on to the next iteration.
C4_DeviceGate == []C4_GateState /\ [][C4_GateStep]_vars

C4_Witness ==
    /\ pc = "ready_wait" /\ gate /\ ~intr_seen
    /\ started = 2 /\ fail_count = 1 /\ n_swipes = 0 /\ n_devices = 2

\* C5: in execute_automation_sequence a failed swipe is followed by no tap
\* and the sequence returns false; it returns true only when the swipe and
\* every tap of the click sequence returned true.
C5_FailFast ==
    /\ (pc \in {"record", "interval"} /\ swipe_ret = "false") =>
         (~main_ret /\ \A k \in 1..Len(iter_cmds) : iter_cmds[k].cmd # "tap")
    /\ (pc \in SeqPcs \ {"ready_wait", "swipe", "anim_wait"}) => swipe_ret = "true"
    /\ (pc \in {"record", "interval"} /\ main_ret) =>
         /\ gate
         /\ swipe_ret = "true"
         /\ taps = CLICK_COORDINATES
         /\ \A k \in 1..Len(tap_results) : tap_results[k]
         /\ Len(tap_results) = Len(CLICK_COORDINATES)

C5_Witness ==
    /\ pc = "record" /\ swipe_ret = "false" /\ ~intr_seen /\ ~main_ret

\* C6: perform_click_sequence on a non-empty list hands every coordinate to
\* tap_screen exactly once and in list order whatever the taps return, its
\* success count is the number of taps that returned true, and it returns
\* true exactly when every tap returned true.
C6_BestEffort ==
    /\ IsPrefix(taps, coordinates)
    /\ Len(tap_results) = Len(taps)
    /\ click_success = CountOf(tap_results, TRUE)
    /\ (pc = "click_done" /\ coordinates # <<>>) =>
         /\ taps = coordinates
         /\ click_ret = (\A k \in 1..Len(tap_results) : tap_results[k])

C6_Witness ==
    /\ pc = "click_done" /\ Len(coordinates) = 3
    /\ tap_results = << TRUE, FALSE, TRUE >>
    /\ click_success = 2 /\ ~click_ret

\* C7: with repeat_count zero or negative the loop never starts: no device
\* query and no gesture is issued, the configuration error is logged and the
\* process exits with status 1.
C7_InvalidRepeatCount ==
    repeat_count <= 0 =>
      /\ pc \in {"validate", "exited"}
      /\ started = 0 /\ n_devices = 0 /\ n_swipes = 0 /\ n_taps = 0
      /\ pc = "exited" => (config_error /\ exit_code = 1 /\ summary = NoSummary)

C7_Witness ==
    /\ pc = "exited" /\ repeat_count = 0 /\ config_error /\ exit_code = 1

\* C8: after an interrupt has ended the loop, the final summary reports the
\* number of iterations attempted, not the planned number.
C8_SummaryReportsAttempted ==
    (pc = "exited" /\ interrupted) =>
      (summary.planned = started /\ summary.avg_divisor = started)

\* the parts of C9: what holds of a step, what holds of a state
C9_Step ==
    (pc = "r_loop" /\ calls' = calls + 1
       /\ retry_trace'[Len(retry_trace')] \in {"raise", "false"}) =>
      /\ pc' = IF attempt < max_retries THEN "r_sleep" ELSE "r_loop"
      /\ attempt' = IF attempt < max_retries THEN attempt ELSE attempt + 1
      /\ retry_ret' = retry_ret
      /\ sleeps' = sleeps

C9_State ==
    /\ pc = "r_raised" => retry_trace[Len(retry_trace)] = "base"
    /\ \A k \in 1..Len(retry_trace) :
         retry_trace[k] = "raise" =>
           \/ k = Len(retry_trace) /\ pc \in {"r_sleep", "r_loop", "r_done"}
           \/ k < Len(retry_trace) /\ retry_trace[k + 1] = "sleep"
    /\ (pc = "r_done" /\ ~retry_ret /\ max_retries >= 0) => calls = max_retries + 1

\* C9: an invocation that raises an Exception is followed by exactly what
\* follows a falsy result: nothing propagates, the loop sleeps and goes on
\* when attempts are left, and otherwise ends with the result false.
C9_ExceptionLikeFalse == []C9_State /\ [][C9_Step]_vars

C9_Witness ==
    /\ pc = "r_done" /\ ~retry_ret /\ max_retries = 2
    /\ retry_trace = << "raise", "sleep", "false", "sleep", "raise" >>

\* C10: wait_and_retry sleeps exactly once between two consecutive
\* invocations and never after the last one: a sleep follows only a failed
\* attempt that is not attempt max_retries + 1, and when the function has
\* ended the sleeps number one less than the invocations.
C10_SleepsBetween ==
    /\ \A k \in 1..Len(retry_trace) : (retry_trace[k] = "sleep") <=> (k % 2 = 0)
    /\ \A k \in 1..Len(retry_trace) :
         retry_trace[k] = "sleep" => retry_trace[k - 1] \in {"false", "raise"}
    /\ sleeps = CountOf(retry_trace, "sleep")
    /\ calls = Len(retry_trace) - sleeps
    /\ sleeps <= (IF max_retries >= 0 THEN max_retries ELSE 0)
    /\ (pc \in {"r_done", "r_raised"} /\ calls > 0) => sleeps = calls - 1

C10_Witness ==
    /\ pc = "r_done" /\ ~retry_ret /\ max_retries = 2
    /\ calls = 3 /\ sleeps = 2

\* the listing read line by line: the first non-blank line is the header,
\* a later line names an authorized device when the text after its first
\* tab is "device"
BlankLine(line) == \A k \in 1..Len(line) : IsSpace(line[k])

AuthorizedLine(line) ==
    \E t \in 1..Len(line) :
       /\ line[t] = "TAB"
       /\ \A j \in 1..(t - 1) : line[j] # "TAB"
       /\ \E a \in (t + 1)..Len(line) :
            /\ line[a] = "device"
            /\ \A j \in ((t + 1)..Len(line)) \ {a} : IsSpace(line[j])

ListsAuthorizedDevice(out) ==
    LET lines == Split(out, "NL") IN
    \E h \in 1..Len(lines) :
       /\ ~BlankLine(lines[h])
       /\ \A j \in 1..(h - 1) : BlankLine(lines[j])
       /\ \E k \in (h + 1)..Len(lines) : AuthorizedLine(lines[k])

\* C11: check_device_connected returns true exactly when the listing
\* command succeeded and, after the header line, some tab-separated line
\* has the state "device"; when the listing command fails (nonzero exit,
\* timeout, unknown error) it returns false.
C11_DeviceGateResult ==
    (pc = "p_done" /\ prim_fn = "devices") =>
      /\ prim_ret = (adb_status = "Success" /\ ListsAuthorizedDevice(adb_stdout))
      /\ adb_status # "Success" => ~prim_ret
      /\ exec_calls = 1

C11_Witness ==
    /\ pc = "p_done" /\ prim_fn = "devices" /\ prim_ret
    /\ adb_stdout = << "List", "NL", "id3", "TAB", "offline", "NL",
                       "id4", "TAB", "SP", "device", "SP", "NL" >>

\* the inputs the primitives reject
InvalidTap == prim_args[1] < 0 \/ prim_args[2] < 0

InvalidSwipe ==
    \/ \E k \in 1..4 : prim_args.c[k] < 0
    \/ prim_args.dur_given /\ prim_args.dur <= 0

InvalidKey == prim_args < 0

BlankText == \A k \in 1..Len(prim_args) : prim_args[k] \in {"SP", "TAB"}

InvalidPrimInput ==
    \/ prim_fn = "tap" /\ InvalidTap
    \/ prim_fn = "swipe" /\ InvalidSwipe
    \/ prim_fn = "key" /\ InvalidKey

ValidPrimInput ==
    \/ prim_fn = "tap" /\ ~InvalidTap
    \/ prim_fn = "swipe" /\ ~InvalidSwipe
    \/ prim_fn = "key" /\ ~InvalidKey
    \/ prim_fn = "text" /\ ~BlankText

\* C12: tap_screen with a negative coordinate, swipe_screen with a negative
\* coordinate or a duration <= 0, and press_key with a negative keycode
\* return false and never call the command executor.
C12_InvalidInputRejected ==
    (pc = "p_done" /\ InvalidPrimInput) =>
      (~prim_ret /\ exec_calls = 0 /\ command = NoCmd)

C12_Witness ==
    /\ pc = "p_done" /\ prim_fn = "swipe" /\ adb_status = "Success"
    /\ prim_args.c = << 0, 7, 7, 0 >> /\ prim_args.dur_given /\ prim_args.dur = 0
    /\ ~prim_ret /\ exec_calls = 0

\* C13: input_text with an empty or whitespace-only string returns true and
\* never calls the command executor.
C13_BlankTextNoOp ==
    (pc = "p_done" /\ prim_fn = "text" /\ BlankText) =>
      (prim_ret /\ exec_calls = 0 /\ command = NoCmd)

C13_Witness ==
    /\ pc = "p_done" /\ prim_fn = "text" /\ adb_status = "Failed"
    /\ prim_args = << "SP", "SP", "SP" >> /\ prim_ret /\ exec_calls = 0

\* C14: tap_screen, swipe_screen, input_text and press_key with valid (for
\* text: non-blank) input make exactly one executor call and return true
\* exactly when its outcome is Success, empty output included; Failed,
\* TimedOut and UnknownError all give false.
C14_OneCallSuccessOnly ==
    (pc = "p_done" /\ ValidPrimInput) =>
      /\ exec_calls = 1
      /\ command.cmd = prim_fn
      /\ prim_ret = (adb_status = "Success")

C14_Witness ==
    /\ pc = "p_done" /\ prim_fn = "text" /\ prim_args = << "a" >>
    /\ adb_status = "Success" /\ adb_stdout = <<>>
    /\ prim_ret /\ exec_calls = 1

\* the decoding the escaped form is meant to allow: the marker %s is a
\* space, a backslash stands before the character it escapes
RECURSIVE Decode(_)
Decode(e) ==
    IF e = <<>> THEN <<>>
    ELSE IF Len(e) >= 2 /\ e[1] = "PCT" /\ e[2] = "s"
    THEN << "SP" >> \o Decode(SubSeq(e, 3, Len(e)))
    ELSE IF Len(e) >= 2 /\ e[1] = "BS"
    THEN << e[2] >> \o Decode(SubSeq(e, 3, Len(e)))
    ELSE << e[1] >> \o Decode(Tail(e))

\* C15: decoding the escaped form that input_text sends gives back the
\* original text, for every text over the printable characters.
C15_EscapeReversible ==
    (pc = "p_done" /\ prim_fn = "text" /\ exec_calls = 1) =>
      Decode(command.at) = prim_args

\* the commands of an iteration in which nothing fails
FullIteration ==
    << Cmd("devices", <<>>), Cmd("swipe", <<>>) >>
    \o [ k \in 1..Len(CLICK_COORDINATES) |-> Cmd("tap", CLICK_COORDINATES[k]) ]

\* C16: the executor commands of an iteration are a prefix of list-devices,
\* swipe, tap(c1) .. tap(cn) in the configured order; in an iteration that
\* no interrupt hit the only proper prefixes are list-devices alone (gate
\* rejected) and list-devices, swipe (swipe failed).
C16_CommandOrder ==
    /\ IsPrefix(iter_cmds, FullIteration)
    /\ (pc \in {"record", "interval", "loop_head", "summary", "exited"}
          /\ started > 0 /\ ~iter_intr) =>
         /\ iter_cmds \in { SubSeq(FullIteration, 1, 1),
                            SubSeq(FullIteration, 1, 2),
                            FullIteration }
         /\ Len(iter_cmds) = 1 <=> ~gate
         /\ Len(iter_cmds) = 2 <=> (gate /\ swipe_ret = "false")

C16_Witness ==
    /\ pc = "record" /\ ~intr_seen /\ ~main_ret
    /\ iter_cmds = FullIteration
    /\ tap_results = << FALSE, TRUE, TRUE >>

\* C17: perform_click_sequence sleeps the interval between every two
\* consecutive taps, whether the earlier one succeeded or failed, and never
\* after the last: n taps make n - 1 sleeps.
C17_SleepBetweenTaps ==
    (pc = "click_done" /\ coordinates # <<>>) =>
      click_sleeps = Len(coordinates) - 1

\* the parts of C18: what holds of a state, what holds of a step
C18_State ==
    (pc # "validate" /\ ~config_error) =>
      /\ 0 <= success_count
      /\ success_count <= started
      /\ started <= repeat_count
      /\ pc \in SeqPcs \cup {"gate", "record"} => success_count <= started - 1

C18_Step ==
    success_count' # success_count =>
      /\ success_count' = success_count + 1
      /\ pc = "record" /\ pc' \in {"interval", "loop_head"}
      /\ gate /\ main_ret /\ ~iter_intr
      /\ swipe_ret = "true" /\ click_ret

\* C18: in the run loop 0 <= success_count <= iterations started <=
\* repeat_count; success_count changes only by +1, at most once per
\* iteration, and only when the gate and the automation sequence of that
\* iteration returned true.
C18_SuccessCount == []C18_State /\ [][C18_Step]_vars

C18_Witness ==
    /\ pc = "interval" /\ started = 2 /\ success_count = 1 /\ fail_count = 1
    /\ main_ret /\ ~intr_seen

\* C19: after an interrupt caught by the run loop, the rate and the exit
\* status are still taken over the planned repeat_count: the exit status is
\* 0 exactly when 10 * success_count >= 9 * repeat_count.
C19_InterruptedExit ==
    (pc = "exited" /\ interrupted) =>
      /\ exit_code = (IF 10 * success_count >= 9 * repeat_count THEN 0 ELSE 1)
      /\ summary.planned = repeat_count
      /\ summary.avg_divisor = repeat_count
      /\ summary.rate_ge_90 = (10 * success_count >= 9 * repeat_count)

C19_Witness ==
    /\ pc = "exited" /\ interrupted /\ repeat_count = 3
    /\ started = 2 /\ success_count = 2 /\ fail_count = 0 /\ exit_code = 1

\* the parts of C20: the resources used, the steps of the iteration count
C20_Resources ==
    repeat_count >= 1 =>
      /\ started <= repeat_count
      /\ n_devices <= repeat_count
      /\ n_swipes <= repeat_count
      /\ n_taps <= repeat_count * Len(CLICK_COORDINATES)
      /\ n_devices <= started /\ n_swipes <= started
      /\ n_taps <= started * Len(CLICK_COORDINATES)

C20_Step ==
    started' # started => (started' = started + 1 /\ pc = "loop_head")

\* C20: when every executor call and every sleep returns, the run loop
\* reaches the final exit after at most repeat_count iterations, at most
\* repeat_count device queries, repeat_count swipes and repeat_count *
\* len(CLICK_COORDINATES) taps; no iteration is run twice.
C20_Terminates ==
    /\ <>(pc = "exited")
    /\ []C20_Resources
    /\ [][C20_Step]_vars

C20_Witness ==
    /\ pc = "exited" /\ repeat_count = 2 /\ started = 2 /\ ~intr_seen
    /\ n_devices = 2 /\ n_swipes = 2 /\ n_taps = 6 /\ fail_count = 2

====
